---- MODULE Spec2Model ----
(***************************************************************************)
(* State-machine model of rep.estimators.theanets.TheanetsClassifier:      *)
(* the adapter object (its __dict__), the operations set_params, fit,      *)
(* partial_fit, predict_proba and the pickle hooks __getstate__ /          *)
(* __setstate__.  The theanets Experiment object is modelled by the layer  *)
(* sequence and options it was constructed with and by its weights (their  *)
(* shape and the sequence of training stages applied to them).             *)
(***************************************************************************)
EXTENDS Integers, Sequences, FiniteSets, TLC

VARIABLES self,      \* the adapter's __dict__
          pickled,   \* <<>> or <<d>>: the dictionary produced by __getstate__, not yet loaded
          last       \* the last call: operation, arguments and outcome

vars == <<self, pickled, last>>

-----------------------------------------------------------------------------
(* Bounds of the model *)

\* cap on the length of self.trainers and of the stages applied to one handle
MaxStages == 2

-----------------------------------------------------------------------------
(* Python values *)

\* None for optional objects: <<>> is None, <<v>> is the object v
None == <<>>

Some(v) == <<v>>

\* the sentinel layer size: "size is taken from the training dataset"
Sentinel == -1

\* identifiers, as character sequences (str.partition and slicing act on them)
K_layers == <<"l","a","y","e","r","s">>

K_input_layer == <<"i","n","p","u","t","_","l","a","y","e","r">>

K_output_layer == <<"o","u","t","p","u","t","_","l","a","y","e","r">>

K_trainers == <<"t","r","a","i","n","e","r","s">>

K_exp == <<"e","x","p">>

K_features == <<"f","e","a","t","u","r","e","s">>

K_network_params == <<"n","e","t","w","o","r","k","_","p","a","r","a","m","s">>

K_decode_from == <<"d","e","c","o","d","e","_","f","r","o","m">>

K_rate == <<"r","a","t","e">>

K_trainer == <<"t","r","a","i","n","e","r">>

K_bogus == <<"b","o","g","u","s">>

K_bogus_key == K_bogus \o <<"_","k","e","y">>

K_abcdefg0_rate == <<"a","b","c","d","e","f","g","0","_">> \o K_rate

\* "trainer<N>_<param>"
TrainerKey(digits, param) == K_trainer \o digits \o <<"_">> \o param

\* a dict: a function from its keys to their values; {} is EmptyDict
EmptyDict == [k \in {} |-> 0]

\* d[k] = v
DictSet(d, k, v) == [x \in (DOMAIN d) \cup {k} |-> IF x = k THEN v ELSE d[x]]

\* {k: v}
Dict1(k, v) == DictSet(EmptyDict, k, v)

Last(s) == s[Len(s)]

-----------------------------------------------------------------------------
(* str.partition('_'), slicing and int() *)

\* index of the first separator in s, 0 when there is none
FirstSep(s) ==
    IF \E i \in 1..Len(s) : s[i] = "_"
    THEN CHOOSE i \in 1..Len(s) : s[i] = "_" /\ \A j \in 1..(i-1) : s[j] # "_"
    ELSE 0

\* key.partition('_'): (head, sep, tail); sep is empty when '_' does not occur
Partition(s) ==
    LET i == FirstSep(s) IN
    IF i = 0 THEN [head |-> s, sep |-> FALSE, tail |-> <<>>]
    ELSE [head |-> SubSeq(s, 1, i-1), sep |-> TRUE, tail |-> SubSeq(s, i+1, Len(s))]

\* s[7:]
Slice7(s) == SubSeq(s, 8, Len(s))

DigitValue == [c \in {"0","1","2","3","4","5","6","7","8","9"} |->
                 CASE c = "0" -> 0 [] c = "1" -> 1 [] c = "2" -> 2 [] c = "3" -> 3
                   [] c = "4" -> 4 [] c = "5" -> 5 [] c = "6" -> 6 [] c = "7" -> 7
                   [] c = "8" -> 8 [] c = "9" -> 9]

RECURSIVE DigitsValue(_)
DigitsValue(s) ==
    IF s = <<>> THEN 0 ELSE 10 * DigitsValue(SubSeq(s, 1, Len(s)-1)) + DigitValue[Last(s)]

\* int(s): [ok, val]; ok is FALSE where int raises ValueError
ParseInt(s) ==
    LET signed == s # <<>> /\ s[1] \in {"-", "+"}
        digits == IF signed THEN Tail(s) ELSE s
    IN  IF digits = <<>> \/ \E i \in 1..Len(digits) : digits[i] \notin DOMAIN DigitValue
        THEN [ok |-> FALSE, val |-> 0]
        ELSE [ok |-> TRUE,
              val |-> IF signed /\ s[1] = "-" THEN 0 - DigitsValue(digits)
                      ELSE DigitsValue(digits)]

\* list[n]: the 1-based position python's index n addresses, 0 where it raises IndexError
ListIndex(n, len) ==
    IF n >= 0 /\ n < len THEN n + 1
    ELSE IF n < 0 /\ n + len >= 0 THEN n + len + 1
    ELSE 0

-----------------------------------------------------------------------------
(* The theanets collaborator: tnt.Experiment *)

\* tnt.Experiment(tnt.Classifier, layers=layers, **network_params): a fresh, untrained network
NewExperiment(layers, network_params) ==
    [layers |-> layers, params |-> network_params,
     weights |-> [shape |-> layers, applied |-> <<>>]]

\* whether exp.train((X, y), **trainer) returns: the batch must have as many columns as
\* the network has inputs; labels 0..n_classes-1 that do not fit the output layer index
\* out of range, which the library either rejects (strict) or does not notice
TrainAccepts(h, X, y, strict) ==
    /\ X.cols = Head(h.weights.shape)
    /\ (y.n_classes <= Last(h.weights.shape) \/ ~strict)

\* exp.train((X, y), **trainer): one more stage applied to the weights
Train(h, trainer) ==
    [h EXCEPT !.weights.applied = Append(@, trainer)]

\* exp.network.predict(X): the shape of the returned matrix, <<>> where the library raises
NetworkPredict(h, X) ==
    IF X.cols = Head(h.weights.shape) THEN <<X.rows, Last(h.weights.shape)>> ELSE <<>>

\* exp.save(path) followed by reading the file: the persisted state
Save(h) == h.weights

\* whether exp.load(path) accepts a blob saved from a network of another shape
LoadAccepts(h, blob, strict) == blob.shape = h.layers \/ ~strict

\* exp.load(path): the persisted state replaces the weights
Load(h, blob) == [h EXCEPT !.weights = blob]

-----------------------------------------------------------------------------
(* TheanetsClassifier *)

\* __init__: trainers is None or Some(list); features is None or Some(list)
Construct(layers, input_layer, output_layer, decode_from, features, trainers) ==
    [layers |-> layers,
     input_layer |-> input_layer,
     output_layer |-> output_layer,
     network_params |-> Dict1(K_decode_from, decode_from),
     trainers |-> IF trainers = None THEN <<EmptyDict>> ELSE trainers[1],
     exp |-> None,
     features |-> features,
     classes_ |-> {}]

\* numpy.unique(y) for labels 0..n_classes-1
Unique(y) == 0..(y.n_classes - 1)

\* the layer size used to build the network: the sentinel is replaced by the observed size
ResolveLayer(configured, observed) ==
    IF configured = Sentinel THEN observed ELSE configured

CheckFittedNever(st) == TRUE

\* _check_fitted: the assertion's condition
CheckFitted(st) == st.exp # None

InitExperimentObserved(st, X, y) ==
    IF st.exp = None
    THEN LET in == X.cols
             out == Cardinality(st.classes_)
             stl == [st EXCEPT !.input_layer = in, !.output_layer = out]
         IN  [stl EXCEPT !.exp = Some(NewExperiment(<<in>> \o stl.layers \o <<out>>,
                                                    stl.network_params))]
    ELSE st

\* partial_fit, lines 187-195: build the experiment when there is none
InitExperiment(st, X, y) ==
    IF st.exp = None
    THEN LET in == ResolveLayer(st.input_layer, X.cols)
             out == ResolveLayer(st.output_layer, Cardinality(st.classes_))
             stl == [st EXCEPT !.input_layer = in, !.output_layer = out]
         IN  [stl EXCEPT !.exp = Some(NewExperiment(<<in>> \o stl.layers \o <<out>>,
                                                    stl.network_params))]
    ELSE st

\* partial_fit, lines 196-197: record the stage
RecordTrainer(st, new_trainer, trainer) ==
    IF new_trainer THEN [st EXCEPT !.trainers = Append(@, trainer)] ELSE st

\* partial_fit(X, y, sample_weight, new_trainer, **trainer): [st, err]
PartialFit(st, X, y, sample_weight, new_trainer, trainer, strict) ==
    IF sample_weight # None
    THEN [st |-> st, err |-> "NotImplementedError"]
    ELSE LET s1 == [st EXCEPT !.classes_ = Unique(y)]
             s2 == InitExperiment(s1, X, y)
             s3 == RecordTrainer(s2, new_trainer, trainer)
         IN  IF TrainAccepts(s3.exp[1], X, y, strict)
             THEN [st |-> [s3 EXCEPT !.exp = Some(Train(@[1], trainer))], err |-> "ok"]
             ELSE [st |-> s3, err |-> "LibraryError"]

\* what fit passes to partial_fit as sample_weight
FitSampleWeight(sample_weight) == None

\* fit, lines 165-166: the loop over self.trainers, from position i
RECURSIVE FitLoop(_, _, _, _, _, _)
FitLoop(st, X, y, sample_weight, strict, i) ==
    IF i > Len(st.trainers)
    THEN [st |-> st, err |-> "ok"]
    ELSE LET r == PartialFit(st, X, y, FitSampleWeight(sample_weight), FALSE,
                             st.trainers[i], strict)
         IN  IF r.err # "ok" THEN r
             ELSE FitLoop(r.st, X, y, sample_weight, strict, i + 1)

DiscardExperimentKept(st) == st

\* fit, line 164
DiscardExperiment(st) == [st EXCEPT !.exp = None]

\* fit(X, y, sample_weight): [st, err]
Fit(st, X, y, sample_weight, strict) ==
    FitLoop(DiscardExperiment(st), X, y, sample_weight, strict, 1)

\* predict_proba(X): [err, out]
PredictProba(st, X) ==
    IF ~CheckFitted(st) THEN [err |-> "AssertionError", out |-> <<>>]
    ELSE IF st.exp = None THEN [err |-> "AttributeError", out |-> <<>>]
    ELSE LET out == NetworkPredict(st.exp[1], X)
         IN  IF out = <<>> THEN [err |-> "LibraryError", out |-> <<>>]
             ELSE [err |-> "ok", out |-> out]

-----------------------------------------------------------------------------
(* set_params *)

\* the instance attributes hasattr finds (classes_ exists only after partial_fit)
HasAttr(st, key) ==
    key \in {K_layers, K_input_layer, K_output_layer, K_network_params,
             K_trainers, K_exp, K_features}

\* setattr(self, key, value)
SetAttr(st, key, value) ==
    CASE key = K_layers -> [st EXCEPT !.layers = value]
      [] key = K_input_layer -> [st EXCEPT !.input_layer = value]
      [] key = K_output_layer -> [st EXCEPT !.output_layer = value]
      [] key = K_network_params -> [st EXCEPT !.network_params = value]
      [] key = K_trainers -> [st EXCEPT !.trainers = value]
      [] key = K_exp -> [st EXCEPT !.exp = value]
      [] key = K_features -> [st EXCEPT !.features = value]

\* lines 127-132: the key is taken for "trainer<N>_<param>"
SetTrainerParam(st, key, value) ==
    LET parts == Partition(key)
        num == ParseInt(Slice7(parts.head))
        pos == ListIndex(num.val, Len(st.trainers))
    IN  IF ~parts.sep THEN [st |-> st, err |-> "AttributeError"]
        ELSE IF ~num.ok THEN [st |-> st, err |-> "ValueError"]
        ELSE IF pos = 0 THEN [st |-> st, err |-> "IndexError"]
        ELSE [st |-> [st EXCEPT !.trainers[pos] = DictSet(@, parts.tail, value)],
              err |-> "ok"]

\* the body of the loop of set_params for one (key, value): [st, err]
SetParam(st, key, value) ==
    IF HasAttr(st, key) THEN [st |-> SetAttr(st, key, value), err |-> "ok"]
    ELSE IF key \in DOMAIN st.network_params
    THEN [st |-> [st EXCEPT !.network_params = DictSet(@, key, value)], err |-> "ok"]
    ELSE SetTrainerParam(st, key, value)

\* set_params(**params), params in iteration order, from position i:
\* [st, err, at]; at is the position of the last pair the loop reached
RECURSIVE SetParams(_, _, _)
SetParams(st, params, i) ==
    LET r == SetParam(st, params[i][1], params[i][2]) IN
    IF r.err # "ok" \/ i = Len(params)
    THEN [st |-> r.st, err |-> r.err, at |-> i]
    ELSE SetParams(r.st, params, i + 1)

-----------------------------------------------------------------------------
(* pickling *)

\* __getstate__: the __dict__ without exp, with dumped_exp
GetState(st) ==
    LET result == [k \in (DOMAIN st) \ {"exp"} |-> st[k]]
        dumped_exp == IF st.exp = None THEN None ELSE Some(Save(st.exp[1]))
    IN  [k \in (DOMAIN result) \cup {"dumped_exp"} |->
            IF k = "dumped_exp" THEN dumped_exp ELSE result[k]]

\* __setstate__, lines 108-109: the experiment is rebuilt from the recorded configuration
RebuildExperiment(d) ==
    NewExperiment(<<d.input_layer>> \o d.layers \o <<d.output_layer>>, d.network_params)

\* __setstate__(dictionary): [st, err]; st is the loaded object where err is "ok"
SetState(dictionary, strict) ==
    LET withExp(e) == [k \in ((DOMAIN dictionary) \ {"dumped_exp"}) \cup {"exp"} |->
                          IF k = "exp" THEN e ELSE dictionary[k]]
    IN  IF dictionary.dumped_exp = None
        THEN [st |-> withExp(None), err |-> "ok"]
        ELSE LET h == RebuildExperiment(dictionary)
                 blob == dictionary.dumped_exp[1]
             IN  IF LoadAccepts(h, blob, strict)
                 THEN [st |-> withExp(Some(Load(h, blob))), err |-> "ok"]
                 ELSE [st |-> withExp(Some(h)), err |-> "LibraryError"]

-----------------------------------------------------------------------------
(* Inputs *)

\* hidden layers given to the constructor
LayersChoices == {<<5>>}

\* input_layer / output_layer given to the constructor, output_layer given to set_params
SizeChoices == {Sentinel, 2}

\* decode_from given to the constructor
DecodeChoices == {1}

FeaturesChoices == {Some(<<"a", "b">>)}

\* trainers given to the constructor
TrainersChoices == {None, Some(<<Dict1(K_rate, 1)>>)}

\* the feature table of a training call, after _transform_data: its shape
XChoices == [rows : {2}, cols : {2, 3}]

\* the feature table of a prediction call
PredictXChoices == {[rows |-> 1, cols |-> 2], [rows |-> 2, cols |-> 3]}

\* the label vector: labels 0..n_classes-1
YChoices == [n_classes : {2, 3}]

\* (X, y, sample_weight) of a training call: every batch without weights, one with
TrainingChoices ==
    {<<X, y, None>> : X \in XChoices, y \in YChoices}
    \cup {<<[rows |-> 2, cols |-> 2], [n_classes |-> 2], Some("weights")>>}

\* the library's answers to out-of-range labels that the call can meet
LabelChecks(st, y) ==
    LET width == IF st.exp # None THEN Last(st.exp[1].weights.shape)
                 ELSE ResolveLayer(st.output_layer, y.n_classes)
    IN  IF y.n_classes > width THEN BOOLEAN ELSE {TRUE}

\* the library's answers to a blob of another shape that loading d can meet
ShapeChecks(d) ==
    IF d.dumped_exp # None /\ d.dumped_exp[1].shape # RebuildExperiment(d).layers
    THEN BOOLEAN ELSE {TRUE}

\* **trainer of a direct partial_fit call
StageChoices == {Dict1(K_rate, 1)}

\* (key, value) pairs passed to set_params
ParamChoices ==
    {<<K_decode_from, 2>>}
    \cup {<<K_output_layer, v>> : v \in SizeChoices}
    \cup {<<K_trainers, <<>>>>}
    \cup {<<k, 1>> : k \in {TrainerKey(<<"0">>, K_rate), TrainerKey(<<"1">>, K_rate),
                           K_bogus, K_bogus_key, K_abcdefg0_rate}}

\* **params of a set_params call, in the order the loop meets the keys:
\* every single pair, and two-key calls whose second key is rejected
ParamsChoices ==
    {<<p>> : p \in ParamChoices}
    \cup {<<<<TrainerKey(<<"0">>, K_rate), 1>>, <<K_bogus, 1>>>>}

-----------------------------------------------------------------------------
(* The state machine *)

NoCall == [op |-> "construct", err |-> "ok", X |-> None, y |-> None,
           sample_weight |-> None, key |-> <<>>, out |-> <<>>]

Init ==
    /\ \E layers \in LayersChoices, input_layer \in SizeChoices, output_layer \in SizeChoices,
          decode_from \in DecodeChoices, features \in FeaturesChoices,
          trainers \in TrainersChoices :
          self = Construct(layers, input_layer, output_layer, decode_from, features, trainers)
    /\ pickled = None
    /\ last = NoCall

\* a.set_params(**params), params among choices
SetParamsFrom(choices) ==
    /\ pickled = None
    /\ \E params \in choices :
          /\ LET r == SetParams(self, params, 1) IN
             /\ self' = r.st
             /\ last' = [NoCall EXCEPT !.op = "set_params", !.err = r.err,
                                       !.key = params[r.at][1]]
    /\ UNCHANGED pickled

DoSetParams == SetParamsFrom(ParamsChoices)

\* a.fit(X, y, sample_weight)
DoFit ==
    /\ pickled = None
    /\ \E call \in TrainingChoices :
          \E strict \in LabelChecks(DiscardExperiment(self), call[2]) :
          LET X == call[1]
              y == call[2]
              sample_weight == call[3]
              r == Fit(self, X, y, sample_weight, strict)
          IN
          /\ self' = r.st
          /\ last' = [NoCall EXCEPT !.op = "fit", !.err = r.err, !.X = Some(X),
                                    !.y = Some(y), !.sample_weight = sample_weight]
    /\ UNCHANGED pickled

\* a.partial_fit(X, y, sample_weight, new_trainer, **trainer)
DoPartialFit ==
    /\ pickled = None
    /\ \E call \in TrainingChoices, new_trainer \in BOOLEAN, trainer \in StageChoices :
          \E strict \in LabelChecks(self, call[2]) :
          /\ new_trainer => Len(self.trainers) < MaxStages
          /\ self.exp # None => Len(self.exp[1].weights.applied) < MaxStages
          /\ LET X == call[1]
                 y == call[2]
                 sample_weight == call[3]
                 r == PartialFit(self, X, y, sample_weight, new_trainer, trainer, strict)
             IN
             /\ self' = r.st
             /\ last' = [NoCall EXCEPT !.op = "partial_fit", !.err = r.err, !.X = Some(X),
                                       !.y = Some(y), !.sample_weight = sample_weight]
    /\ UNCHANGED pickled

\* a.predict_proba(X)
DoPredictProba ==
    /\ pickled = None
    /\ \E X \in PredictXChoices :
          LET r == PredictProba(self, X) IN
          last' = [NoCall EXCEPT !.op = "predict_proba", !.err = r.err, !.X = Some(X),
                                 !.out = r.out]
    /\ UNCHANGED <<self, pickled>>

\* pickle.dumps(a): __getstate__; the dictionary is loaded next
DoSerialize ==
    /\ pickled = None
    /\ pickled' = Some(GetState(self))
    /\ last' = [NoCall EXCEPT !.op = "serialize"]
    /\ UNCHANGED self

\* b = pickle.loads(...): __setstate__ on a new object, which the model follows from
\* here on; where loading raises there is no b and the model stays with a
DoDeserialize ==
    /\ pickled # None
    /\ \E strict \in ShapeChecks(pickled[1]) :
          LET r == SetState(pickled[1], strict) IN
          /\ self' = IF r.err = "ok" THEN r.st ELSE self
          /\ last' = [NoCall EXCEPT !.op = "deserialize", !.err = r.err]
    /\ pickled' = None

Next ==
    \/ DoSetParams
    \/ DoFit
    \/ DoPartialFit
    \/ DoPredictProba
    \/ DoSerialize
    \/ DoDeserialize

Spec == Init /\ [][Next]_vars

\* The adapter constructed with input_layer = output_layer = -1 and neither size
\* ever passed to set_params
InitInferred ==
    /\ Init
    /\ self.input_layer = Sentinel
    /\ self.output_layer = Sentinel

DoSetParamsKeepingSizes ==
    SetParamsFrom({ps \in ParamsChoices :
                     \A i \in 1..Len(ps) : ps[i][1] \notin {K_input_layer, K_output_layer}})

NextInferred ==
    \/ DoSetParamsKeepingSizes
    \/ DoFit
    \/ DoPartialFit
    \/ DoPredictProba
    \/ DoSerialize
    \/ DoDeserialize

SpecInferred == InitInferred /\ [][NextInferred]_vars

-----------------------------------------------------------------------------
(* Properties *)

Training == {"fit", "partial_fit"}

\* C1: fit and partial_fit called with a sample_weight that is not None fail with
\* NotImplementedError and perform no training stage (the adapter is left as it was).
C1_SampleWeightRejected ==
    [][(last'.op \in Training /\ last'.sample_weight # None)
          => (last'.err = "NotImplementedError" /\ self' = self)]_vars

\* C2: for an adapter constructed with input_layer = output_layer = -1 and never given
\* a size through set_params, in any state reached by earlier calls, after a successful
\* fit(X, y) predict_proba(X) returns a matrix with the rows of X and one column per
\* distinct label of y.  Stated for a schedule that is not empty and for labels the
\* network's output layer can index, where the library's behaviour is defined.
C2_FitThenPredictShape ==
    (/\ last.op = "fit"
     /\ last.err = "ok"
     /\ self.trainers # <<>>
     /\ self.exp # None
     /\ last.y[1].n_classes <= Last(self.exp[1].weights.shape))
       => PredictProba(self, last.X[1])
            = [err |-> "ok", out |-> <<last.X[1].rows, last.y[1].n_classes>>]

\* C3: whenever the handle is None predict_proba fails with the assertion of
\* _check_fitted and changes nothing of the adapter; the handle is None at construction
\* and only a training call turns a None handle into a handle.
C3_PredictNeedsHandle ==
    /\ self.exp = None
    /\ [][(last'.op = "predict_proba" /\ self.exp = None)
             => (last'.err = "AssertionError" /\ last'.out = <<>> /\ self' = self)]_vars
    /\ [][(self.exp = None /\ self'.exp # None) => last'.op \in Training]_vars

\* C3 happens: predict_proba was refused on an adapter that has been trained before
\* (it has class labels) and has no handle now
C3_Witness ==
    /\ last.op = "predict_proba"
    /\ last.err = "AssertionError"
    /\ self.exp = None
    /\ self.classes_ # {}

\* C4: a successful fit leaves the Trainer Schedule as it was and, discarding the handle
\* it found, builds one new handle from the current configuration to which exactly the
\* schedule's entries have been applied, once each and in schedule order (no handle
\* when the schedule is empty).
C4_FitReplaysSchedule ==
    [][(last'.op = "fit" /\ last'.err = "ok")
          => /\ self'.trainers = self.trainers
             /\ self.trainers = <<>> => self'.exp = None
             /\ self.trainers # <<>> =>
                  /\ self'.exp # None
                  /\ self'.exp[1].weights.applied = self.trainers
                  /\ self'.exp[1].weights.shape = self'.exp[1].layers
                  /\ self'.exp[1].layers
                       = <<self'.input_layer>> \o self.layers \o <<self'.output_layer>>
                  /\ self'.exp[1].params = self.network_params]_vars

\* C4 happens: a fit has replayed a schedule of two different stages
C4_Witness ==
    /\ last.op = "fit"
    /\ last.err = "ok"
    /\ Len(self.trainers) = 2
    /\ self.trainers[1] # self.trainers[2]
    /\ self.exp # None
    /\ self.exp[1].weights.applied = self.trainers

\* what a round trip has to preserve of the configuration
SameConfiguration(a, b) ==
    /\ b.layers = a.layers
    /\ b.input_layer = a.input_layer
    /\ b.output_layer = a.output_layer
    /\ b.network_params = a.network_params
    /\ b.trainers = a.trainers
    /\ b.features = a.features
    /\ b.classes_ = a.classes_

\* C5: b = deserialize(serialize(a)) has a's configuration, schedule, features and
\* class labels, has a handle exactly when a has one, and that handle is built with the
\* layers and options a's handle was built with and carries a's persisted state, so
\* that predict_proba agrees between a and b.
C5_RoundTrip ==
    [][last'.op = "deserialize"
          => /\ last'.err = "ok"
             /\ SameConfiguration(self, self')
             /\ (self'.exp = None) = (self.exp = None)
             /\ self.exp # None =>
                  /\ self'.exp[1].layers = self.exp[1].layers
                  /\ self'.exp[1].params = self.exp[1].params
                  /\ self'.exp[1].weights = self.exp[1].weights
             /\ \A X \in PredictXChoices : PredictProba(self', X) = PredictProba(self, X)]_vars

IsDigit(c) == c \in {"0","1","2","3","4","5","6","7","8","9"}

\* key is "trainer" N "_" param, N a decimal number and param not empty
IsTrainerKey(key) ==
    \E n \in 8..(Len(key) - 2) :
       /\ SubSeq(key, 1, 7) = K_trainer
       /\ \A i \in 8..n : IsDigit(key[i])
       /\ key[n + 1] = "_"

\* the stage number and the field a trainer key names
StageOf(key) == DigitsValue(SubSeq(key, 8, FirstSep(key) - 1))

FieldOf(key) == SubSeq(key, FirstSep(key) + 1, Len(key))

\* key is no attribute, no network option and no trainer key
IsUnknownKey(key) ==
    /\ key \notin {K_layers, K_input_layer, K_output_layer, K_trainers, K_features}
    /\ key \notin DOMAIN self.network_params
    /\ ~IsTrainerKey(key)

\* C6: set_params stopped by a key that is no attribute, no network option and not of
\* the form trainer<N>_<param> fails with AttributeError.
C6_UnknownKeyRejected ==
    (last.op = "set_params" /\ IsUnknownKey(last.key)) => last.err = "AttributeError"

\* C7: set_params with a key trainer<N>_<param> sets that field of stage N, for every
\* stage index N the caller addresses.
C7_TrainerKeySetsStage ==
    (last.op = "set_params" /\ IsTrainerKey(last.key))
       => /\ last.err = "ok"
          /\ StageOf(last.key) < Len(self.trainers)
          /\ FieldOf(last.key) \in DOMAIN self.trainers[StageOf(last.key) + 1]

\* C8: a training call that finds no handle builds it with the layers
\* [input] + hidden + [output], a configured size as given and a sentinel replaced by
\* the feature count of X, respectively the number of distinct labels of y, of the call.
C8_LazyConstruction ==
    [][(/\ last'.op \in Training
        /\ self'.exp # None
        /\ (last'.op = "fit" \/ self.exp = None))
          => self'.exp[1].layers
               = <<IF self.input_layer = -1 THEN last'.X[1].cols ELSE self.input_layer>>
                 \o self.layers
                 \o <<IF self.output_layer = -1 THEN last'.y[1].n_classes
                      ELSE self.output_layer>>]_vars

\* C8 happens: a training call has built a handle whose input and output widths can
\* only come from the batch (no constructor or set_params value is 3)
C8_Witness ==
    /\ last.op \in Training
    /\ last.err = "ok"
    /\ self.exp # None
    /\ self.exp[1].layers = <<3, 5, 3>>
    /\ self.exp[1].weights.applied # <<>>

\* C9: whenever there is a handle, the Trainer Schedule is, entry for entry and in
\* order, the sequence of stages applied to that handle.  Stated for the states a call
\* that returned normally leaves.
C9_ScheduleIsApplied ==
    (self.exp # None /\ last.err = "ok") => self.trainers = self.exp[1].weights.applied

\* C10: while a handle exists the recorded input_layer and output_layer are the widths
\* the handle was constructed with.
C10_RecordedWidths ==
    self.exp # None =>
       /\ self.input_layer = Head(self.exp[1].layers)
       /\ self.output_layer = Last(self.exp[1].layers)

=============================================================================
